---- MODULE Spec2Model ----
(***************************************************************************)
(* A model of the CHIP-8 core of chip8-rs: the Emulator orchestrator and   *)
(* its four components (CPU, Memory, Display, Input).  Every handler of    *)
(* the source is an operator from an emulator record to the emulator       *)
(* record it leaves behind; the host drives tick, tick_timers, key updates *)
(* and reset as actions.                                                   *)
(***************************************************************************)
EXTENDS Integers, Sequences, FiniteSets

\* ------------------------------------------------------------ constants
NUMBER_OF_REGISTERS == 16
STACK_SIZE == 16
START_ADDRESS == 512
RAM_SIZE == 4096
SCREEN_WIDTH == 64
SCREEN_HEIGHT == 32
FONT_SET_SIZE == 80
NUMBER_OF_KEYS == 16

FONT_SET ==
    << 240, 144, 144, 144, 240,
        32,  96,  32,  32, 112,
       240,  16, 240, 128, 240,
       240,  16, 240,  16, 240,
       144, 144, 240,  16,  16,
       240, 128, 240,  16, 240,
       240, 128, 240, 144, 240,
       240,  16,  32,  64,  64,
       240, 144, 240, 144, 240,
       240, 144, 240,  16, 240,
       240, 144, 240, 144, 144,
       224, 144, 224, 144, 224,
       240, 128, 128, 128, 240,
       224, 144, 144, 144, 224,
       240, 128, 240, 128, 240,
       240, 128, 240, 128, 128 >>

\* Widths of the machine integers.
U8 == 256
U16 == 65536

\* ------------------------------------------------------------ bounds
\* Instruction ticks the host drives beyond one per word of the loaded image,
\* between two resets.
MaxExtraTicks == 2
\* Key updates and timer ticks the host drives between two resets.
MaxHostEvents == 2

\* ------------------------------------------------------------ state
VARIABLES
    cpu,              \* CPU: v_registers, i_register, stack, program_counter, stack_pointer
    memory,           \* Memory: ram (the bytes that are not 0, by address), delay_timer, sound_timer
    display,          \* Display: screen (the indices of the pixels that are true)
    input,            \* Input: keys
    panicked,         \* the process has aborted (panic!/unimplemented!/index out of bounds)
    overflow_checks,  \* build profile: TRUE = arithmetic overflow panics (debug), FALSE = wraps (release)
    cartridge,        \* the program image the host loads at START_ADDRESS
    loaded,           \* the host has loaded the cartridge since construction/reset
    ticks,            \* instruction ticks since construction/reset
    host_events,      \* key updates and timer ticks since construction/reset
    call_log,         \* history: return addresses of the calls not yet returned from
    last,             \* history: the last step taken and the emulator before it
    last2             \* history: the step before the last one

vars == << cpu, memory, display, input, panicked, overflow_checks, cartridge,
           loaded, ticks, host_events, call_log, last, last2 >>

\* ------------------------------------------------------------ bit helpers
RECURSIVE bit_or(_, _)
bit_or(a, b) ==
    IF a = 0 THEN b
    ELSE IF b = 0 THEN a
    ELSE (IF a % 2 = 1 \/ b % 2 = 1 THEN 1 ELSE 0) + 2 * bit_or(a \div 2, b \div 2)

RECURSIVE bit_and(_, _)
bit_and(a, b) ==
    IF a = 0 \/ b = 0 THEN 0
    ELSE (IF a % 2 = 1 /\ b % 2 = 1 THEN 1 ELSE 0) + 2 * bit_and(a \div 2, b \div 2)

\* The process aborts; the fields already written stay as they are.
Panic(e) == [e EXCEPT !.panicked = TRUE]

\* ------------------------------------------------------------ CPU
CPU_new ==
    [ v_registers     |-> [r \in 0..(NUMBER_OF_REGISTERS - 1) |-> 0],
      i_register      |-> 0,
      stack           |-> [s \in 0..(STACK_SIZE - 1) |-> 0],
      program_counter |-> START_ADDRESS,
      stack_pointer   |-> 0 ]

\* push: stack[stack_pointer] = val (index checked), then stack_pointer += 1
push(e, val) ==
    IF e.cpu.stack_pointer >= STACK_SIZE THEN Panic(e)
    ELSE [e EXCEPT !.cpu.stack[e.cpu.stack_pointer] = val,
                   !.cpu.stack_pointer = e.cpu.stack_pointer + 1]

\* pop: stack_pointer -= 1 (u16), then the slot is read (index checked).
\* The popped value is pop_value(pop(e)) when pop(e) has not panicked.
pop(e) ==
    IF e.cpu.stack_pointer = 0
    THEN IF overflow_checks THEN Panic(e)
         ELSE Panic([e EXCEPT !.cpu.stack_pointer = U16 - 1])
    ELSE IF e.cpu.stack_pointer - 1 >= STACK_SIZE
         THEN Panic([e EXCEPT !.cpu.stack_pointer = e.cpu.stack_pointer - 1])
         ELSE [e EXCEPT !.cpu.stack_pointer = e.cpu.stack_pointer - 1]

pop_value(e) == e.cpu.stack[e.cpu.stack_pointer]

op_ret(e) ==
    LET p == pop(e)
    IN  IF p.panicked THEN p
        ELSE [p EXCEPT !.cpu.program_counter = pop_value(p)]

\* op_call pushing the address of the CALL itself
op_call_pushes_own_address(e, operation) ==
    LET nnn == operation % 4096
        p   == push(e, e.cpu.program_counter - 2)
    IN  IF p.panicked THEN p
        ELSE [p EXCEPT !.cpu.program_counter = nnn]

op_call(e, operation) ==
    LET nnn == operation % 4096
        p   == push(e, e.cpu.program_counter)
    IN  IF p.panicked THEN p
        ELSE [p EXCEPT !.cpu.program_counter = nnn]

op_jmp(e, operation) ==
    [e EXCEPT !.cpu.program_counter = operation % 4096]

op_reg_jmp(e, operation) ==
    [e EXCEPT !.cpu.program_counter = e.cpu.v_registers[0] + (operation % 4096)]

\* program_counter += 2 on a u16
skip(e) ==
    IF e.cpu.program_counter + 2 >= U16
    THEN IF overflow_checks THEN Panic(e)
         ELSE [e EXCEPT !.cpu.program_counter = (e.cpu.program_counter + 2) % U16]
    ELSE [e EXCEPT !.cpu.program_counter = e.cpu.program_counter + 2]

op_se(e, operation, x) ==
    LET nn == operation % 256
    IN  IF e.cpu.v_registers[x] = nn THEN skip(e) ELSE e

op_reg_se(e, x, y) ==
    IF e.cpu.v_registers[x] = e.cpu.v_registers[y] THEN skip(e) ELSE e

\* The source compares with ==, as op_se does.
op_sne(e, operation, x) ==
    LET nn == operation % 256
    IN  IF e.cpu.v_registers[x] = nn THEN skip(e) ELSE e

op_ld(e, operation, x) ==
    [e EXCEPT !.cpu.v_registers[x] = operation % 256]

op_reg_ld(e, x, y) ==
    [e EXCEPT !.cpu.v_registers[x] = e.cpu.v_registers[y]]

\* v_registers[x] += nn: an unchecked u8 addition
op_add(e, operation, x) ==
    LET nn  == operation % 256
        sum == e.cpu.v_registers[x] + nn
    IN  IF sum >= U8 /\ overflow_checks THEN Panic(e)
        ELSE [e EXCEPT !.cpu.v_registers[x] = sum % U8]

\* op_reg_add with the flag written before the sum
op_reg_add_flag_first(e, x, y) ==
    LET sum    == e.cpu.v_registers[x] + e.cpu.v_registers[y]
        new_vx == sum % U8
        new_vf == IF sum >= U8 THEN 1 ELSE 0
    IN  [e EXCEPT !.cpu.v_registers =
            [[e.cpu.v_registers EXCEPT ![15] = new_vf] EXCEPT ![x] = new_vx]]

\* overflowing_add; Vx is written first, VF last
op_reg_add(e, x, y) ==
    LET sum    == e.cpu.v_registers[x] + e.cpu.v_registers[y]
        new_vx == sum % U8
        new_vf == IF sum >= U8 THEN 1 ELSE 0
    IN  [e EXCEPT !.cpu.v_registers =
            [[e.cpu.v_registers EXCEPT ![x] = new_vx] EXCEPT ![15] = new_vf]]

\* op_reg_sub with a borrow reported for equal operands
op_reg_sub_borrow_on_equal(e, x, y, reverse) ==
    LET a      == IF reverse THEN e.cpu.v_registers[y] ELSE e.cpu.v_registers[x]
        b      == IF reverse THEN e.cpu.v_registers[x] ELSE e.cpu.v_registers[y]
        new_vx == (a - b) % U8
        new_vf == IF a <= b THEN 0 ELSE 1
    IN  [e EXCEPT !.cpu.v_registers =
            [[e.cpu.v_registers EXCEPT ![x] = new_vx] EXCEPT ![15] = new_vf]]

\* overflowing_sub; Vx is written first, VF last
op_reg_sub(e, x, y, reverse) ==
    LET a      == IF reverse THEN e.cpu.v_registers[y] ELSE e.cpu.v_registers[x]
        b      == IF reverse THEN e.cpu.v_registers[x] ELSE e.cpu.v_registers[y]
        new_vx == (a - b) % U8
        borrow == a < b
        new_vf == IF borrow THEN 0 ELSE 1
    IN  [e EXCEPT !.cpu.v_registers =
            [[e.cpu.v_registers EXCEPT ![x] = new_vx] EXCEPT ![15] = new_vf]]

op_reg_or(e, x, y) ==
    [e EXCEPT !.cpu.v_registers[x] = bit_or(e.cpu.v_registers[x], e.cpu.v_registers[y])]

\* op_shift with the low bit taken as the flag in both directions
op_shift_always_lsb(e, x, right) ==
    LET v      == e.cpu.v_registers[x]
        new_vx == IF right THEN v \div 2 ELSE (v * 2) % U8
    IN  [e EXCEPT !.cpu.v_registers =
            [[e.cpu.v_registers EXCEPT ![x] = new_vx] EXCEPT ![15] = v % 2]]

\* >>= 1 and <<= 1 on a u8 drop the bit shifted out; VF is written last
op_shift(e, x, right) ==
    LET v      == e.cpu.v_registers[x]
        bit    == IF right THEN v % 2 ELSE (v \div 128) % 2
        new_vx == IF right THEN v \div 2 ELSE (v * 2) % U8
    IN  [e EXCEPT !.cpu.v_registers =
            [[e.cpu.v_registers EXCEPT ![x] = new_vx] EXCEPT ![15] = bit]]

op_reg_sne(e, x, y) ==
    IF e.cpu.v_registers[x] # e.cpu.v_registers[y] THEN skip(e) ELSE e

op_i_ld(e, operation) ==
    [e EXCEPT !.cpu.i_register = operation % 4096]

\* rand is the byte random() returned
op_rnd(e, operation, x, rand) ==
    [e EXCEPT !.cpu.v_registers[x] = bit_and(rand, operation % 256)]

op_ld_dt(e, x) ==
    [e EXCEPT !.cpu.v_registers[x] = e.memory.delay_timer]

op_add_i(e, x) ==
    [e EXCEPT !.cpu.i_register = (e.cpu.i_register + e.cpu.v_registers[x]) % U16]

op_ld_font(e, x) ==
    [e EXCEPT !.cpu.i_register = e.cpu.v_registers[x] * 5]

CPU_reset(e) == [e EXCEPT !.cpu = CPU_new]

\* ------------------------------------------------------------ Memory
\* ram is [u8; RAM_SIZE]; the model keeps the bytes that are not 0, by
\* address, so that the array is the function ram_at(ram, _) on 0..RAM_SIZE-1.
ZeroRam == [a \in {} |-> 0]

ram_at(ram, a) == IF a \in DOMAIN ram THEN ram[a] ELSE 0

\* ram with vals[a] stored at every address a of the domain of vals
ram_write(ram, vals) ==
    [a \in ((DOMAIN ram) \ (DOMAIN vals)) \cup {b \in DOMAIN vals : vals[b] # 0} |->
        IF a \in DOMAIN vals THEN vals[a] ELSE ram[a]]

initialize_font_set(ram) ==
    ram_write(ram, [a \in 0..(FONT_SET_SIZE - 1) |-> FONT_SET[a + 1]])

Memory_new ==
    [ ram         |-> initialize_font_set(ZeroRam),
      delay_timer |-> 0,
      sound_timer |-> 0 ]

fetch_byte(m, index) == ram_at(m.ram, index)

\* big-endian word at index; the caller checks both indices
fetch_word(m, index) == ram_at(m.ram, index) * 256 + ram_at(m.ram, index + 1)

Memory_op_ld_dt(e, x) ==
    [e EXCEPT !.memory.delay_timer = e.cpu.v_registers[x]]

Memory_op_ld_st(e, x) ==
    [e EXCEPT !.memory.sound_timer = e.cpu.v_registers[x]]

\* for idx in 0..=x: ram[i + idx] = V[idx]; the first index past the end of
\* ram aborts the loop with the earlier bytes already stored
\* op_str with the exclusive range 0..x
op_str_exclusive(e, x) ==
    LET i      == e.cpu.i_register
        last_a == IF i + x - 1 >= RAM_SIZE THEN RAM_SIZE - 1 ELSE i + x - 1
        stored == [e EXCEPT !.memory.ram =
                     ram_write(e.memory.ram,
                               [a \in i..last_a |-> e.cpu.v_registers[a - i]])]
    IN  IF i + x - 1 >= RAM_SIZE THEN Panic(stored) ELSE stored

op_str(e, x) ==
    LET i      == e.cpu.i_register
        last_a == IF i + x >= RAM_SIZE THEN RAM_SIZE - 1 ELSE i + x
        stored == [e EXCEPT !.memory.ram =
                     ram_write(e.memory.ram,
                               [a \in i..last_a |-> e.cpu.v_registers[a - i]])]
    IN  IF i + x >= RAM_SIZE THEN Panic(stored) ELSE stored

\* for idx in 0..=x: V[idx] = ram[i + idx]; the first index past the end of
\* ram aborts the loop with the earlier registers already loaded
Memory_op_ld(e, x) ==
    LET i      == e.cpu.i_register
        loaded_regs == [e EXCEPT !.cpu.v_registers =
                     [r \in 0..(NUMBER_OF_REGISTERS - 1) |->
                        IF r <= x /\ i + r < RAM_SIZE THEN ram_at(e.memory.ram, i + r)
                        ELSE e.cpu.v_registers[r]]]
    IN  IF i + x >= RAM_SIZE THEN Panic(loaded_regs) ELSE loaded_regs

\* The delay timer is stepped before the sound timer is looked at, and a
\* sound timer of 1 reaches unimplemented!().
tick_timers(e) ==
    LET d == IF e.memory.delay_timer > 0
             THEN [e EXCEPT !.memory.delay_timer = e.memory.delay_timer - 1]
             ELSE e
    IN  IF d.memory.sound_timer > 0
        THEN IF d.memory.sound_timer = 1 THEN Panic(d)
             ELSE [d EXCEPT !.memory.sound_timer = d.memory.sound_timer - 1]
        ELSE d

\* Memory::reset without the two timer assignments
Memory_reset_keeps_timers(e) ==
    [e EXCEPT !.memory.ram = initialize_font_set(ZeroRam)]

Memory_reset(e) == [e EXCEPT !.memory = Memory_new]

\* ------------------------------------------------------------ Display
\* screen is [bool; SCREEN_WIDTH * SCREEN_HEIGHT]; the model keeps the set of
\* the indices whose pixel is true.
Display_new == [ screen |-> {} ]

Display_reset(e) == [e EXCEPT !.display = Display_new]

op_cls(e) == Display_reset(e)

\* row_pixels without the wrap of the column at the right edge
row_pixels_no_column_wrap(pixels, x_coord, y_coord, y_line) ==
    { (x_coord + x_line) + SCREEN_WIDTH * ((y_coord + y_line) % SCREEN_HEIGHT) :
        x_line \in { c \in 0..7 : (pixels \div (2 ^ (7 - c))) % 2 = 1 } }

\* The indices one sprite row flips: the set bits of pixels, most significant
\* bit first, wrapped around the screen.
row_pixels(pixels, x_coord, y_coord, y_line) ==
    { ((x_coord + x_line) % SCREEN_WIDTH) + SCREEN_WIDTH * ((y_coord + y_line) % SCREEN_HEIGHT) :
        x_line \in { c \in 0..7 : (pixels \div (2 ^ (7 - c))) % 2 = 1 } }

\* drw_rows setting the sprite's pixels instead of flipping them
RECURSIVE drw_rows_sets_pixels(_, _, _, _, _, _)
drw_rows_sets_pixels(e, x_coord, y_coord, num_rows, y_line, flipped) ==
    IF y_line >= num_rows
    THEN [e EXCEPT !.cpu.v_registers[15] = IF flipped THEN 1 ELSE 0]
    ELSE LET sum == e.cpu.i_register + y_line
             addr == sum % U16
         IN  IF sum >= U16 /\ overflow_checks THEN Panic(e)
             ELSE IF addr >= RAM_SIZE THEN Panic(e)
             ELSE LET on == row_pixels(fetch_byte(e.memory, addr), x_coord, y_coord, y_line)
                  IN  drw_rows_sets_pixels(
                        [e EXCEPT !.display.screen = e.display.screen \cup on],
                        x_coord, y_coord, num_rows, y_line + 1,
                        flipped \/ (on \cap e.display.screen # {}))

\* The loop of op_drw from row y_line on, then the write of VF.
RECURSIVE drw_rows(_, _, _, _, _, _)
drw_rows(e, x_coord, y_coord, num_rows, y_line, flipped) ==
    IF y_line >= num_rows
    THEN [e EXCEPT !.cpu.v_registers[15] = IF flipped THEN 1 ELSE 0]
    ELSE LET sum == e.cpu.i_register + y_line
             addr == sum % U16
         IN  IF sum >= U16 /\ overflow_checks THEN Panic(e)
             ELSE IF addr >= RAM_SIZE THEN Panic(e)
             ELSE LET on == row_pixels(fetch_byte(e.memory, addr), x_coord, y_coord, y_line)
                  IN  drw_rows(
                        [e EXCEPT !.display.screen =
                            (e.display.screen \ on) \cup (on \ e.display.screen)],
                        x_coord, y_coord, num_rows, y_line + 1,
                        flipped \/ (on \cap e.display.screen # {}))

op_drw(e, x_coord, y_coord, num_rows) ==
    drw_rows(e, x_coord, y_coord, num_rows, 0, FALSE)

\* ------------------------------------------------------------ Input
Input_new == [ keys |-> [k \in 0..(NUMBER_OF_KEYS - 1) |-> FALSE] ]

Input_reset(e) == [e EXCEPT !.input = Input_new]

\* keys[vx] is index-checked
op_skp(e, x, reverse) ==
    LET vx == e.cpu.v_registers[x]
    IN  IF vx >= NUMBER_OF_KEYS THEN Panic(e)
        ELSE LET key == e.input.keys[vx]
             IN  IF (~reverse /\ key) \/ (reverse /\ ~key) THEN skip(e) ELSE e

\* op_ld_wait without the rewind of the program counter
op_ld_wait_no_rewind(e, x) ==
    LET pressed == { k \in 0..(NUMBER_OF_KEYS - 1) : e.input.keys[k] }
    IN  IF pressed # {}
        THEN [e EXCEPT !.cpu.v_registers[x] =
                 CHOOSE k \in pressed : \A j \in pressed : k <= j]
        ELSE e

\* op_ld_wait taking the highest pressed key
op_ld_wait_highest_key(e, x) ==
    LET pressed == { k \in 0..(NUMBER_OF_KEYS - 1) : e.input.keys[k] }
    IN  IF pressed # {}
        THEN [e EXCEPT !.cpu.v_registers[x] =
                 CHOOSE k \in pressed : \A j \in pressed : k >= j]
        ELSE [e EXCEPT !.cpu.program_counter = e.cpu.program_counter - 2]

op_ld_wait(e, x) ==
    LET pressed == { k \in 0..(NUMBER_OF_KEYS - 1) : e.input.keys[k] }
    IN  IF pressed # {}
        THEN [e EXCEPT !.cpu.v_registers[x] =
                 CHOOSE k \in pressed : \A j \in pressed : k <= j]
        ELSE [e EXCEPT !.cpu.program_counter = e.cpu.program_counter - 2]

\* ------------------------------------------------------------ Emulator
Emulator_new ==
    [ cpu |-> CPU_new, memory |-> Memory_new, display |-> Display_new,
      input |-> Input_new, panicked |-> FALSE ]

digit1(operation) == operation \div 4096
digit2(operation) == (operation \div 256) % 16
digit3(operation) == (operation \div 16) % 16
digit4(operation) == operation % 16

\* fetch with the program counter moved on by one byte instead of one word
fetch_advance_by_one(e) ==
    IF e.cpu.program_counter + 1 >= RAM_SIZE THEN Panic(e)
    ELSE [e EXCEPT !.cpu.program_counter = e.cpu.program_counter + 1]

\* fetch: the word at the program counter is read (both bytes index-checked),
\* then the program counter moves on by 2
fetch(e) ==
    IF e.cpu.program_counter + 1 >= RAM_SIZE THEN Panic(e)
    ELSE [e EXCEPT !.cpu.program_counter = e.cpu.program_counter + 2]

\* the match of execute, first arm first
execute(e, operation, rand) ==
    LET d1 == digit1(operation)
        d2 == digit2(operation)
        d3 == digit3(operation)
        d4 == digit4(operation)
    IN  IF operation = 0 THEN e
        ELSE IF d1 = 0 /\ d2 = 0 /\ d3 = 14 /\ d4 = 0 THEN op_cls(e)
        ELSE IF d1 = 0 /\ d2 = 0 /\ d3 = 14 /\ d4 = 14 THEN op_ret(e)
        ELSE IF d1 = 1 THEN op_jmp(e, operation)
        ELSE IF d1 = 2 THEN op_call(e, operation)
        ELSE IF d1 = 3 THEN op_se(e, operation, d2)
        ELSE IF d1 = 4 THEN op_sne(e, operation, d2)
        ELSE IF d1 = 5 /\ d4 = 0 THEN op_reg_se(e, d2, d3)
        ELSE IF d1 = 6 THEN op_ld(e, operation, d2)
        ELSE IF d1 = 7 THEN op_add(e, operation, d2)
        ELSE IF d1 = 8 /\ d4 = 1 THEN op_reg_or(e, d2, d3)
        ELSE IF d1 = 8 /\ d4 = 4 THEN op_reg_add(e, d2, d3)
        ELSE IF d1 = 8 /\ d4 = 5 THEN op_reg_sub(e, d2, d3, FALSE)
        ELSE IF d1 = 8 /\ d4 = 6 THEN op_shift(e, d2, TRUE)
        ELSE IF d1 = 8 /\ d4 = 7 THEN op_reg_sub(e, d2, d3, TRUE)
        ELSE IF d1 = 8 /\ d4 = 14 THEN op_shift(e, d2, FALSE)
        ELSE IF d1 = 8 THEN op_reg_ld(e, d2, d3)
        ELSE IF d1 = 9 THEN op_reg_sne(e, d2, d3)
        ELSE IF d1 = 10 THEN op_i_ld(e, operation)
        ELSE IF d1 = 11 THEN op_reg_jmp(e, operation)
        ELSE IF d1 = 12 THEN op_rnd(e, operation, d2, rand)
        ELSE IF d1 = 13
             THEN op_drw(e, e.cpu.v_registers[d2], e.cpu.v_registers[d3], d4)
        ELSE IF d1 = 14 /\ d3 = 9 /\ d4 = 14 THEN op_skp(e, d2, FALSE)
        ELSE IF d1 = 14 /\ d3 = 10 /\ d4 = 1 THEN op_skp(e, d2, TRUE)
        ELSE IF d1 = 15 /\ d3 = 0 /\ d4 = 7 THEN op_ld_dt(e, d2)
        ELSE IF d1 = 15 /\ d3 = 0 /\ d4 = 10 THEN op_ld_wait(e, d2)
        ELSE IF d1 = 15 /\ d3 = 1 /\ d4 = 5 THEN Memory_op_ld_dt(e, d2)
        ELSE IF d1 = 15 /\ d3 = 1 /\ d4 = 8 THEN Memory_op_ld_st(e, d2)
        ELSE IF d1 = 15 /\ d3 = 1 /\ d4 = 14 THEN op_add_i(e, d2)
        ELSE IF d1 = 15 /\ d3 = 2 /\ d4 = 9 THEN op_ld_font(e, d2)
        ELSE IF d1 = 15 /\ d3 = 5 /\ d4 = 5 THEN op_str(e, d2)
        ELSE IF d1 = 15 /\ d3 = 6 /\ d4 = 5 THEN Memory_op_ld(e, d2)
        ELSE Panic(e)

tick(e, rand) ==
    LET f == fetch(e)
    IN  IF f.panicked THEN f
        ELSE execute(f, fetch_word(e.memory, e.cpu.program_counter), rand)

reset(e) == Input_reset(Display_reset(Memory_reset(CPU_reset(e))))

\* ------------------------------------------------------------ host
\* The emulator as the variables hold it.
E == [ cpu |-> cpu, memory |-> memory, display |-> display, input |-> input,
       panicked |-> panicked ]

Becomes(out) ==
    /\ cpu' = out.cpu
    /\ memory' = out.memory
    /\ display' = out.display
    /\ input' = out.input
    /\ panicked' = out.panicked

\* A history entry: what the step was, the word it fetched (-1 if none), the
\* emulator before it (Emulator_new where the step's claims need none) and
\* the call log before it.
Step(kind, op, pre, log) == [ kind |-> kind, op |-> op, pre |-> pre, log |-> log ]
NoStep == Step("new", -1, Emulator_new, << >>)

\* Program load: the host writes the image into ram from START_ADDRESS on.
load(e, image) ==
    [e EXCEPT !.memory.ram =
        ram_write(e.memory.ram,
                  [a \in START_ADDRESS..(START_ADDRESS + Len(image) - 1) |->
                      image[a - START_ADDRESS + 1]])]

\* Keypad update: the host sets or clears one key.
set_key(e, k, pressed) == [e EXCEPT !.input.keys[k] = pressed]

\* The keys the host presses and releases.
DrivenKeys == {0, 3, 15}
\* The bytes random() is taken to return.
RandBytes == {0, 90, 255}

TickBudget == (IF loaded THEN Len(cartridge) \div 2 ELSE 0) + MaxExtraTicks

\* The word the next tick fetches, -1 if the fetch is out of range.
NextWord ==
    IF cpu.program_counter + 1 >= RAM_SIZE THEN -1
    ELSE fetch_word(memory, cpu.program_counter)

\* call_log after a tick that fetched op at pc and did not abort
logged(log, op, pc) ==
    IF op >= 0 /\ digit1(op) = 2 THEN Append(log, (pc + 2) % U16)
    ELSE IF op = 238 /\ Len(log) > 0 THEN SubSeq(log, 1, Len(log) - 1)
    ELSE log

Load ==
    /\ ~panicked /\ ~loaded /\ ticks = 0
    /\ Becomes(load(E, cartridge))
    /\ loaded' = TRUE
    /\ last' = Step("load", -1, Emulator_new, << >>)
    /\ last2' = last
    /\ UNCHANGED << overflow_checks, cartridge, ticks, host_events, call_log >>

Tick ==
    /\ ~panicked /\ ticks < TickBudget
    /\ \E rand \in (IF NextWord >= 0 /\ digit1(NextWord) = 12 THEN RandBytes ELSE {0}) :
       \E out \in {tick(E, rand)} :
          /\ Becomes(out)
          /\ call_log' = IF out.panicked THEN call_log
                         ELSE logged(call_log, NextWord, cpu.program_counter)
    /\ ticks' = ticks + 1
    /\ last' = Step("tick", NextWord, E, call_log)
    /\ last2' = last
    /\ UNCHANGED << overflow_checks, cartridge, loaded, host_events >>

TickTimers ==
    /\ ~panicked /\ host_events < MaxHostEvents
    /\ Becomes(tick_timers(E))
    /\ host_events' = host_events + 1
    /\ last' = Step("timers", -1, E, call_log)
    /\ last2' = last
    /\ UNCHANGED << overflow_checks, cartridge, loaded, ticks, call_log >>

SetKey ==
    /\ ~panicked /\ host_events < MaxHostEvents
    /\ \E k \in DrivenKeys, pressed \in BOOLEAN : Becomes(set_key(E, k, pressed))
    /\ host_events' = host_events + 1
    /\ last' = Step("key", -1, Emulator_new, << >>)
    /\ last2' = last
    /\ UNCHANGED << overflow_checks, cartridge, loaded, ticks, call_log >>

Reset ==
    /\ ~panicked
    /\ Becomes(reset(E))
    /\ loaded' = FALSE
    /\ ticks' = 0
    /\ host_events' = 0
    /\ call_log' = << >>
    /\ last' = Step("reset", -1, Emulator_new, << >>)
    /\ last2' = last
    /\ UNCHANGED << overflow_checks, cartridge >>

\* ------------------------------------------------------------ cartridges
Word(d1, d2, d3, d4) == d1 * 4096 + d2 * 256 + d3 * 16 + d4
WordNN(d1, x, nn) == d1 * 4096 + x * 256 + nn
WordNNN(d1, nnn) == d1 * 4096 + nnn

\* The bytes of a sequence of words, big-endian.
Image(words) ==
    [i \in 1..(2 * Len(words)) |->
        IF i % 2 = 1 THEN words[(i + 1) \div 2] \div 256 ELSE words[i \div 2] % 256]

RegIdx == {0, 1, 14, 15}
ByteVals == {0, 1, 127, 128, 255}

\* LD V0,5; LD V1,3; ADD V0,V1
EndToEndProgram == << 24581, 24835, 32788 >>

\* LD VF,170; LD Vx,a; LD Vy,b; 8xyN
RegOpPrograms ==
    { << WordNN(6, 15, 170), WordNN(6, x, a), WordNN(6, y, b), Word(8, x, y, n) >> :
        x \in RegIdx, y \in RegIdx, a \in ByteVals, b \in ByteVals,
        n \in {0, 1, 4, 5, 6, 7, 14} }

\* LD VF,170; LD Vx,v; 3xnn / 4xnn / 7xnn
ImmOpPrograms ==
    { << WordNN(6, 15, 170), WordNN(6, x, v), WordNN(d1, x, nn) >> :
        x \in RegIdx, v \in ByteVals, nn \in ByteVals, d1 \in {3, 4, 7} }

AluCartridges == { Image(w) : w \in RegOpPrograms \cup ImmOpPrograms }

\* k nested calls: subroutine i is CALL subroutine i+1; RET, at
\* START_ADDRESS + 4 * i, and subroutine k is RET.
NestedCalls(k) ==
    [i \in 1..(2 * k + 1) |->
        IF i % 2 = 1 /\ i < 2 * k + 1
        THEN WordNNN(2, START_ADDRESS + 2 * (i + 1))
        ELSE 238]

\* Calls forward and backward over a gap.
\* JMP 0x206; RET; NOP; CALL 0x202
BackwardCall == << WordNNN(1, 518), 238, 0, WordNNN(2, 514) >>
\* NOP; CALL 0x20A; NOP; NOP; NOP; RET
ForwardCall == << 0, WordNNN(2, 522), 0, 0, 0, 238 >>

CallPrograms ==
    { NestedCalls(k) : k \in {1, 2, 3, STACK_SIZE, STACK_SIZE + 1} }
        \cup { BackwardCall, ForwardCall }

\* LD V1,9; LD Vx,7; LD Vx,K; NOP
KeyWaitPrograms ==
    { << WordNN(6, 1, 9), WordNN(6, x, 7), Word(15, x, 0, 10), 0 >> : x \in {0, 3, 15} }

\* LD V0,7; LD DT,V0; LD ST,V0; LD I,FONT(V0); DRW V0,V0,5; LD I,0x300;
\* STR V0; CALL 0x210
BusyProgram ==
    << WordNN(6, 0, 7), Word(15, 0, 1, 5), Word(15, 0, 1, 8), Word(15, 0, 2, 9),
       Word(13, 0, 0, 5), WordNNN(10, 768), Word(15, 0, 5, 5), WordNNN(2, 528) >>

\* Words no arm of execute but the last matches: 0x0001, 0x5001, 0xE0A0, 0xFFFF.
UnsupportedPrograms == { << w >> : w \in {1, 20481, 57504, 65535} }

\* LD V0,d; LD DT,V0; LD V1,s; LD ST,V1
TimerPrograms ==
    { << WordNN(6, 0, d), Word(15, 0, 1, 5), WordNN(6, 1, s), Word(15, 1, 1, 8) >> :
        d \in {0, 1, 2, 255}, s \in {0, 1, 2, 255} }

\* Programs that reach the end of memory.
\* JMP 0xFFF
JumpToLastByte == << WordNNN(1, 4095) >>
\* JMP 0xFFE, where a NOP is
JumpToLastWord == << WordNNN(1, 4094) >>
\* LD V0,v; JMP V0+nnn
RegJumpPrograms ==
    { << WordNN(6, 0, v), WordNNN(11, nnn) >> : v \in {0, 2, 255}, nnn \in {518, 4094, 4095} }
\* LD V0,1; LD V1,2; LD V2,3; LD I,0xFFE; STR V0..V2
StorePastEnd ==
    << WordNN(6, 0, 1), WordNN(6, 1, 2), WordNN(6, 2, 3), WordNNN(10, 4094), Word(15, 2, 5, 5) >>
\* LD V0,9; LD V1,9; LD V2,9; LD I,0xFFE; LD V0..V2,[I]
LoadPastEnd ==
    << WordNN(6, 0, 9), WordNN(6, 1, 9), WordNN(6, 2, 9), WordNNN(10, 4094), Word(15, 2, 6, 5) >>
\* LD V0,255; LD I,0xFFF; STR V0; LD V0,0; DRW V0,V0,2
DrawPastEnd ==
    << WordNN(6, 0, 255), WordNNN(10, 4095), Word(15, 0, 5, 5), WordNN(6, 0, 0),
       Word(13, 0, 0, 2) >>

EdgePrograms ==
    { JumpToLastByte, JumpToLastWord, StorePastEnd, LoadPastEnd, DrawPastEnd }
        \cup RegJumpPrograms

\* LD Vx,v; SKP Vx or SKNP Vx; NOP; NOP
KeySkipPrograms ==
    { << WordNN(6, x, v), Word(14, x, d[1], d[2]), 0, 0 >> :
        x \in {0, 5}, v \in {0, 3, 15, 16, 255}, d \in { <<9, 14>>, <<10, 1>> } }

\* LD V0,17; LD V1,0; LD V2,34; LD I,nnn; STR V0..Vx; LD V0..Vx,[I];
\* LD V0,119; LD V1,136; LD V0..Vx,[I]
BlockPrograms ==
    { << WordNN(6, 0, 17), WordNN(6, 1, 0), WordNN(6, 2, 34), WordNNN(10, nnn),
         Word(15, x, 5, 5), Word(15, x, 6, 5),
         WordNN(6, 0, 119), WordNN(6, 1, 136), Word(15, x, 6, 5) >> :
        x \in {0, 1, 2, 15}, nnn \in {2, 768, 4080} }

\* LD V0,a; LD V1,b; 8 0 1 n or 9 0 1 n; NOP
DecodePrograms ==
    { << WordNN(6, 0, a), WordNN(6, 1, b), Word(d1, 0, 1, n), 0 >> :
        a \in {1, 2}, b \in {2, 3}, d1 \in {8, 9}, n \in {0, 1, 2, 3, 8, 15} }

CoreCartridges ==
    { Image(w) : w \in {EndToEndProgram, BusyProgram} \cup CallPrograms \cup KeyWaitPrograms
                       \cup UnsupportedPrograms \cup TimerPrograms \cup EdgePrograms
                       \cup KeySkipPrograms \cup BlockPrograms
                       \cup DecodePrograms }

\* The sprite data a draw program carries behind its code.
SpriteData == << 65409 >>

\* DRW V0,V0,5 over the glyph at 0 (or NOP); LD Vx,X; LD Vy,Y; LD I,addr;
\* then the same DRW Vx,Vy,n three times; the sprite data follows the code.
DrawCode(background, x, y, xc, yc, addr, n) ==
    << IF background THEN Word(13, 0, 0, 5) ELSE 0,
       WordNN(6, x, xc), WordNN(6, y, yc), WordNNN(10, addr),
       Word(13, x, y, n), Word(13, x, y, n), Word(13, x, y, n) >>

\* The address of the sprite data behind the seven words of a draw program.
DataAddress == START_ADDRESS + 2 * 7

DrawPrograms ==
    { DrawCode(bg, xy[1], xy[2], xc, yc, addr, n) \o SpriteData :
        bg \in BOOLEAN,
        xy \in { <<0, 1>>, <<1, 1>>, <<15, 1>>, <<0, 15>> },
        xc \in {0, 1, 60, 63, 255},
        yc \in {0, 30, 31},
        addr \in {0, 768, DataAddress},
        n \in {0, 1, 5, 15} }

DrawCartridges == { Image(w) : w \in DrawPrograms }

\* ------------------------------------------------------------ specifications
InitWith(cartridges) ==
    /\ cpu = CPU_new
    /\ memory = Memory_new
    /\ display = Display_new
    /\ input = Input_new
    /\ panicked = FALSE
    /\ overflow_checks \in BOOLEAN
    /\ cartridge \in cartridges
    /\ loaded = FALSE
    /\ ticks = 0
    /\ host_events = 0
    /\ call_log = << >>
    /\ last = NoStep
    /\ last2 = NoStep

Init == InitWith(CoreCartridges)
Next == Load \/ Tick \/ TickTimers \/ SetKey \/ Reset
Spec == Init /\ [][Next]_vars

\* The ALU and the draw programs read no key and no timer: the host loads,
\* ticks and resets.
NextRun == Load \/ Tick \/ Reset
InitAlu == InitWith(AluCartridges)
SpecAlu == InitAlu /\ [][NextRun]_vars
InitDraw == InitWith(DrawCartridges)
SpecDraw == InitDraw /\ [][NextRun]_vars

\* ------------------------------------------------------------ claims
\* The last step was a tick that fetched a word.
LastTick == last.kind = "tick" /\ last.op >= 0
V(r) == cpu.v_registers[r]
PreV(r) == last.pre.cpu.v_registers[r]
OtherRegistersKept(x) ==
    \A r \in 0..(NUMBER_OF_REGISTERS - 1) : r # x => V(r) = PreV(r)

\* C1: with 0x60 0x05, 0x61 0x03, 0x80 0x14 loaded at 0x200, three ticks from
\* the initial state leave V0 = 8, V1 = 3, VF = 0 and PC = 0x206.
\* None of the three ticks aborts.
C1_EndToEnd ==
    /\ (loaded /\ cartridge = Image(EndToEndProgram) /\ ticks <= 3) => ~panicked
    /\ (loaded /\ cartridge = Image(EndToEndProgram) /\ ticks = 3)
        => /\ V(0) = 8 /\ V(1) = 3 /\ V(15) = 0
           /\ cpu.program_counter = 518

C1_Witness ==
    /\ loaded /\ cartridge = << 96, 5, 97, 3, 128, 20 >> /\ ticks = 3
    /\ LastTick /\ last.op = 32788 /\ last.pre.cpu.program_counter = 516
    /\ V(0) = 8

\* C2: one tick of SNE Vx,nn (4xnn) at address p leaves PC = p + 4 if
\* Vx # nn and PC = p + 2 if Vx = nn.
C2_SkipIfNotEqual ==
    (LastTick /\ digit1(last.op) = 4)
        => /\ ~panicked
           /\ cpu.program_counter =
                 IF PreV(digit2(last.op)) # last.op % 256
                 THEN last.pre.cpu.program_counter + 4
                 ELSE last.pre.cpu.program_counter + 2

\* C3: after ADD Vx,Vy (8xy4) with a = Vx and b = Vy, VF is 1 if a + b >= 256
\* and 0 otherwise, whatever x and y are, and for x # 0xF Vx = (a + b) mod 256.
C3_RegAdd ==
    (LastTick /\ digit1(last.op) = 8 /\ digit4(last.op) = 4)
        => LET x == digit2(last.op)
               a == PreV(digit2(last.op))
               b == PreV(digit3(last.op))
           IN  /\ ~panicked
               /\ V(15) = IF a + b >= 256 THEN 1 ELSE 0
               /\ x # 15 => V(x) = (a + b) % 256

\* An addition into VF itself that carries.
C3_Witness ==
    /\ LastTick /\ digit1(last.op) = 8 /\ digit4(last.op) = 4
    /\ digit2(last.op) = 15 /\ digit3(last.op) = 14
    /\ PreV(15) + PreV(14) >= 256 /\ (PreV(15) + PreV(14)) % 256 # 1
    /\ V(15) = 1

\* C4: after SUB Vx,Vy (8xy5: a = Vx, b = Vy) and after its reverse (8xy7:
\* a = Vy, b = Vx), VF is 1 if a >= b and 0 otherwise, and for x # 0xF
\* Vx = (a - b) mod 256.
C4_RegSub ==
    (LastTick /\ digit1(last.op) = 8 /\ digit4(last.op) \in {5, 7})
        => LET x == digit2(last.op)
               y == digit3(last.op)
               a == IF digit4(last.op) = 5 THEN PreV(x) ELSE PreV(y)
               b == IF digit4(last.op) = 5 THEN PreV(y) ELSE PreV(x)
           IN  /\ ~panicked
               /\ V(15) = IF a >= b THEN 1 ELSE 0
               /\ x # 15 => V(x) = (a - b) % 256

\* A reverse subtraction of equal operands: no borrow, result 0.
C4_Witness ==
    /\ LastTick /\ digit1(last.op) = 8 /\ digit4(last.op) = 7
    /\ digit2(last.op) = 0 /\ digit3(last.op) = 1
    /\ PreV(0) = 128 /\ PreV(1) = 128
    /\ V(15) = 1 /\ V(0) = 0

\* C5: ADD Vx,nn (7xnn) with x in 0..14 completes with Vx = (v + nn) mod 256,
\* also when v + nn >= 256, and leaves VF and every other register unchanged.
C5_AddImmediate ==
    (LastTick /\ digit1(last.op) = 7 /\ digit2(last.op) <= 14)
        => /\ ~panicked
           /\ V(digit2(last.op)) = (PreV(digit2(last.op)) + (last.op % 256)) % 256
           /\ OtherRegistersKept(digit2(last.op))

\* C6: for x # 0xF and v = Vx, SHR (8xy6) leaves VF = v AND 1 and Vx = v >> 1,
\* and SHL (8xyE) leaves VF = the most significant bit of v and
\* Vx = (2 * v) mod 256.
C6_Shifts ==
    (LastTick /\ digit1(last.op) = 8 /\ digit4(last.op) \in {6, 14}
              /\ digit2(last.op) # 15)
        => LET x == digit2(last.op)
               v == PreV(digit2(last.op))
           IN  /\ ~panicked
               /\ digit4(last.op) = 6 => V(15) = v % 2 /\ V(x) = v \div 2
               /\ digit4(last.op) = 14 =>
                     V(15) = (IF v >= 128 THEN 1 ELSE 0) /\ V(x) = (2 * v) % 256

\* A left shift that drops a set top bit while the low bit is clear.
C6_Witness ==
    /\ LastTick /\ digit1(last.op) = 8 /\ digit4(last.op) = 14
    /\ digit2(last.op) = 1
    /\ PreV(1) = 128 /\ PreV(15) = 170
    /\ V(15) = 1 /\ V(1) = 0

IsCall(op) == op >= 0 /\ digit1(op) = 2
IsRet(op) == op = 238

\* C7: CALL nnn at stack depth below 16 followed immediately by RET leaves
\* PC at the address behind the CALL and the stack pointer as it was before
\* the CALL; and every RET with 1..16 calls outstanding returns to the
\* address of the latest call not yet returned from.
C7_CallRet ==
    /\ ( /\ last2.kind = "tick" /\ IsCall(last2.op)
         /\ last2.pre.cpu.stack_pointer < STACK_SIZE
         /\ last.kind = "tick" /\ IsRet(last.op) )
        => /\ ~panicked
           /\ cpu.program_counter = last2.pre.cpu.program_counter + 2
           /\ cpu.stack_pointer = last2.pre.cpu.stack_pointer
    /\ ( /\ last.kind = "tick" /\ IsRet(last.op)
         /\ Len(last.log) >= 1 /\ Len(last.log) <= STACK_SIZE )
        => /\ ~panicked
           /\ cpu.program_counter = last.log[Len(last.log)]
           /\ cpu.stack_pointer = Len(last.log) - 1
           /\ call_log = SubSeq(last.log, 1, Len(last.log) - 1)

\* The sixteenth nested call, returned from at once.
C7_Witness ==
    /\ last2.kind = "tick" /\ IsCall(last2.op)
    /\ last.kind = "tick" /\ IsRet(last.op)
    /\ Len(last.log) = STACK_SIZE
    /\ last2.pre.cpu.stack_pointer = STACK_SIZE - 1
    /\ cpu.stack_pointer = STACK_SIZE - 1
    /\ cpu.program_counter = last2.pre.cpu.program_counter + 2

IsKeyWait(op) == op >= 0 /\ digit1(op) = 15 /\ digit3(op) = 0 /\ digit4(op) = 10
NoKeyPressed(e) == \A k \in 0..(NUMBER_OF_KEYS - 1) : ~e.input.keys[k]

\* C8: a tick of Fx0A with no key pressed leaves PC, the registers, I, the
\* stack, memory, the timers, the display and the keys as they were, so the
\* next tick fetches the same Fx0A again.
C8_KeyWaitBlocks ==
    (last.kind = "tick" /\ IsKeyWait(last.op) /\ NoKeyPressed(last.pre))
        => /\ ~panicked
           /\ cpu = last.pre.cpu
           /\ memory = last.pre.memory
           /\ display = last.pre.display
           /\ input = last.pre.input
           /\ NextWord = last.op

\* Two consecutive ticks of the same key wait with no key pressed.
C8_Witness ==
    /\ last2.kind = "tick" /\ IsKeyWait(last2.op)
    /\ last.kind = "tick" /\ last.op = last2.op /\ NoKeyPressed(last.pre)
    /\ cpu.program_counter = START_ADDRESS + 4
    /\ V(1) = 9

\* C9: after reset PC = 0x200, V0..VF = 0, I = 0, the stack pointer is 0,
\* both timers are 0, every pixel is false, every key is released, memory
\* [0,80) is the font set and every other byte of memory is 0.
C9_Reset ==
    last.kind = "reset"
        => /\ ~panicked
           /\ cpu.program_counter = 512
           /\ \A r \in 0..15 : cpu.v_registers[r] = 0
           /\ cpu.i_register = 0
           /\ cpu.stack_pointer = 0
           /\ memory.delay_timer = 0 /\ memory.sound_timer = 0
           /\ display.screen = {}
           /\ \A k \in 0..15 : ~input.keys[k]
           /\ \A a \in 0..4095 :
                 ram_at(memory.ram, a) = IF a < 80 THEN FONT_SET[a + 1] ELSE 0

\* A reset of an emulator with a call outstanding, pixels lit, a byte stored
\* at 0x300, timers running, a timer tick taken and a key pressed.
C9_Witness ==
    /\ last.kind = "reset"
    /\ last2.kind = "tick" /\ last2.op = 0
    /\ last2.pre.cpu.stack_pointer = 1
    /\ last2.pre.cpu.program_counter = 528
    /\ last2.pre.cpu.i_register = 768
    /\ last2.pre.cpu.v_registers[0] = 7
    /\ last2.pre.display.screen # {}
    /\ last2.pre.memory.delay_timer = 6 /\ last2.pre.memory.sound_timer = 6
    /\ ram_at(last2.pre.memory.ram, 768) = 7
    /\ last2.pre.input.keys[3]
    /\ cpu.program_counter = 512

IsDrw(op) == op >= 0 /\ digit1(op) = 13

\* The last two steps were ticks of the same DRW Vx,Vy,n, both completed, at
\* the same coordinates, with the same I and the same memory.
DrawnTwice ==
    /\ last2.kind = "tick" /\ last.kind = "tick"
    /\ IsDrw(last.op) /\ last2.op = last.op
    /\ ~panicked
    /\ last2.pre.cpu.v_registers[digit2(last.op)] = PreV(digit2(last.op))
    /\ last2.pre.cpu.v_registers[digit3(last.op)] = PreV(digit3(last.op))
    /\ last2.pre.cpu.i_register = last.pre.cpu.i_register
    /\ last2.pre.memory.ram = last.pre.memory.ram

\* The sprite of the last DRW has a set bit.
SpriteNotEmpty ==
    \E r \in 0..(digit4(last.op) - 1) :
        ram_at(last.pre.memory.ram, last.pre.cpu.i_register + r) # 0

\* C10 as claimed: the second of two identical draws restores the display
\* of before the first, and leaves VF = 1 if the sprite has a set bit.
C10_DrawTwice ==
    DrawnTwice
        => /\ display.screen = last2.pre.display.screen
           /\ SpriteNotEmpty => V(15) = 1

\* C10 as amended: the second of two identical draws restores the display
\* of before the first, and leaves VF = 1 exactly if the first draw turned
\* at least one pixel on.
C10_DrawTwiceAmended ==
    DrawnTwice
        => /\ display.screen = last2.pre.display.screen
           /\ V(15) = 1 <=> (last.pre.display.screen \ last2.pre.display.screen # {})

\* Two identical draws of a sprite with set bits over a display with pixels
\* lit: the first changed the display, the second restored it with VF = 1.
C10_Witness ==
    /\ DrawnTwice /\ SpriteNotEmpty
    /\ last2.pre.display.screen # {}
    /\ last.pre.display.screen # last2.pre.display.screen
    /\ display.screen = last2.pre.display.screen
    /\ V(15) = 1

\* The pixels the reference draw toggles for the last DRW Vx,Vy,n: one for
\* each row r < n and column c < 8 whose bit, most significant first, is set
\* in the byte at I + r.
ReferencePixels ==
    LET vx == PreV(digit2(last.op))
        vy == PreV(digit3(last.op))
        i  == last.pre.cpu.i_register
    IN  { ((vx + rc[2]) % 64) + 64 * ((vy + rc[1]) % 32) :
            rc \in { q \in (0..(digit4(last.op) - 1)) \X (0..7) :
                       (ram_at(last.pre.memory.ram, i + q[1]) \div (2 ^ (7 - q[2]))) % 2 = 1 } }

\* C11: a completed DRW Vx,Vy,n toggles exactly the pixels of the reference
\* toroidal draw and leaves every other pixel as it was; afterwards VF is 1
\* if at least one pixel went from set to clear and 0 otherwise.
C11_DrawReference ==
    (LastTick /\ IsDrw(last.op) /\ ~panicked)
        => /\ display.screen =
                 (last.pre.display.screen \ ReferencePixels)
                     \cup (ReferencePixels \ last.pre.display.screen)
           /\ V(15) = IF last.pre.display.screen \ display.screen # {} THEN 1 ELSE 0

\* The one-row sprite 0xFF drawn at x = 63, y = 31 on a clear display:
\* columns 63, 0, 1, ..., 6 of row 31.
C11_Witness ==
    /\ LastTick /\ IsDrw(last.op) /\ ~panicked
    /\ digit4(last.op) = 1
    /\ PreV(digit2(last.op)) = 63 /\ PreV(digit3(last.op)) = 31
    /\ ram_at(last.pre.memory.ram, last.pre.cpu.i_register) = 255
    /\ last.pre.display.screen = {}
    /\ display.screen = {2047} \cup (1984..1990)
    /\ V(15) = 0

\* The word matches one of the patterns of execute before the catch-all.
MatchesPattern(op) ==
    \/ op \in {0, 224, 238}
    \/ digit1(op) \in {1, 2, 3, 4, 6, 7, 8, 9, 10, 11, 12, 13}
    \/ digit1(op) = 5 /\ digit4(op) = 0
    \/ digit1(op) = 14 /\ << digit3(op), digit4(op) >> \in { <<9, 14>>, <<10, 1>> }
    \/ digit1(op) = 15 /\ << digit3(op), digit4(op) >> \in
          { <<0, 7>>, <<0, 10>>, <<1, 5>>, <<1, 8>>, <<1, 14>>, <<2, 9>>, <<5, 5>>, <<6, 5>> }

\* C12: a tick whose fetched word matches no opcode pattern does not abort
\* the emulator: the error goes to the caller, who can go on calling tick.
C12_UnsupportedOpcode ==
    (LastTick /\ ~MatchesPattern(last.op)) => ~panicked

\* C13: a timer tick from timers (d, s) completes and leaves the delay timer
\* at max(d - 1, 0) and the sound timer at max(s - 1, 0), and changes nothing
\* else: PC, registers, I, stack, memory, display, keys.
C13_TimerTick ==
    last.kind = "timers"
        => /\ ~panicked
           /\ memory.delay_timer =
                 IF last.pre.memory.delay_timer >= 1
                 THEN last.pre.memory.delay_timer - 1 ELSE 0
           /\ memory.sound_timer =
                 IF last.pre.memory.sound_timer >= 1
                 THEN last.pre.memory.sound_timer - 1 ELSE 0
           /\ cpu = last.pre.cpu
           /\ memory.ram = last.pre.memory.ram
           /\ display = last.pre.display
           /\ input = last.pre.input

\* C14: the stack pointer is in 0..16 in every reachable state; a CALL with
\* 16 return addresses on the stack and a RET with an empty stack do not
\* abort the emulator and leave the stack contents and the stack pointer as
\* they were.
C14_StackBounds ==
    /\ cpu.stack_pointer \in 0..STACK_SIZE
    /\ ( /\ LastTick
         /\ \/ IsCall(last.op) /\ last.pre.cpu.stack_pointer = STACK_SIZE
            \/ IsRet(last.op) /\ last.pre.cpu.stack_pointer = 0 )
        => /\ ~panicked
           /\ cpu.stack = last.pre.cpu.stack
           /\ cpu.stack_pointer = last.pre.cpu.stack_pointer

IsStr(op) == op >= 0 /\ digit1(op) = 15 /\ digit3(op) = 5 /\ digit4(op) = 5
IsLd(op) == op >= 0 /\ digit1(op) = 15 /\ digit3(op) = 6 /\ digit4(op) = 5

\* The last step was a tick whose fetch, sprite read or register block
\* transfer reaches address 4096 or more.
AddressOutOfRange ==
    /\ last.kind = "tick"
    /\ \/ last.pre.cpu.program_counter + 1 >= RAM_SIZE
       \/ /\ IsDrw(last.op) /\ digit4(last.op) >= 1
          /\ last.pre.cpu.i_register + digit4(last.op) - 1 >= RAM_SIZE
       \/ /\ IsStr(last.op) \/ IsLd(last.op)
          /\ last.pre.cpu.i_register + digit2(last.op) >= RAM_SIZE

\* C15: a tick whose instruction fetch, DRW sprite read or Fx55/Fx65 block
\* transfer would touch an address of 4096 or more does not abort the
\* emulator and leaves memory and the registers unchanged.
C15_AddressOutOfRange ==
    AddressOutOfRange
        => /\ ~panicked
           /\ memory = last.pre.memory
           /\ cpu.v_registers = last.pre.cpu.v_registers

IsLdSt(op) == op >= 0 /\ digit1(op) = 15 /\ digit3(op) = 1 /\ digit4(op) = 8

\* C16: once LD ST,Vx has set the sound timer to n >= 1, every timer tick
\* brings the sound timer one step closer to 0 without stopping the
\* emulator (the step from 1 to 0 included), so n timer ticks reach 0; at 0
\* a timer tick leaves it at 0; and the emulator can still tick afterwards.
C16_SoundTimerRunsDown ==
    /\ ( /\ last2.kind = "tick" /\ IsLdSt(last2.op)
         /\ last.kind = "timers" )
        => /\ last.pre.memory.sound_timer =
                 last2.pre.cpu.v_registers[digit2(last2.op)]
           /\ last.pre.memory.sound_timer >= 1
                 => /\ ~panicked
                    /\ memory.sound_timer = last.pre.memory.sound_timer - 1
    /\ (last.kind = "timers" /\ last.pre.memory.sound_timer >= 1)
        => /\ ~panicked
           /\ memory.sound_timer < last.pre.memory.sound_timer
    /\ (last.kind = "timers" /\ last.pre.memory.sound_timer = 0)
        => memory.sound_timer = 0

PressedKeys(e) == { k \in 0..(NUMBER_OF_KEYS - 1) : e.input.keys[k] }

\* C17: a tick of Fx0A with at least one key pressed sets Vx to the smallest
\* pressed key index, leaves PC at the address behind the Fx0A (its address
\* plus 2), and changes no other register, no key and no memory byte.
C17_KeyWaitRetires ==
    (last.kind = "tick" /\ IsKeyWait(last.op) /\ ~NoKeyPressed(last.pre))
        => /\ ~panicked
           /\ V(digit2(last.op)) \in PressedKeys(last.pre)
           /\ \A k \in PressedKeys(last.pre) : V(digit2(last.op)) <= k
           /\ cpu.program_counter = last.pre.cpu.program_counter + 2
           /\ OtherRegistersKept(digit2(last.op))
           /\ cpu.i_register = last.pre.cpu.i_register
           /\ cpu.stack = last.pre.cpu.stack
           /\ cpu.stack_pointer = last.pre.cpu.stack_pointer
           /\ input = last.pre.input
           /\ memory = last.pre.memory
           /\ display = last.pre.display

\* Fx0A retired with two keys down, taking the lower one over the value the
\* register held.
C17_Witness ==
    /\ last.kind = "tick" /\ IsKeyWait(last.op) /\ ~panicked
    /\ PressedKeys(last.pre) = {3, 15}
    /\ PreV(digit2(last.op)) = 7
    /\ V(digit2(last.op)) = 3
    /\ cpu.program_counter = last.pre.cpu.program_counter + 2

IsSkp(op) == op >= 0 /\ digit1(op) = 14 /\ digit3(op) = 9 /\ digit4(op) = 14
IsSknp(op) == op >= 0 /\ digit1(op) = 14 /\ digit3(op) = 10 /\ digit4(op) = 1

\* C18: for every key state and every Vx in 0..255, a tick of SKP Vx or of
\* SKNP Vx completes without fault, leaves PC at p+2 or at p+4 and changes
\* nothing but PC; SKP skips exactly when SKNP in the same state would not;
\* for Vx in 0..15 SKP skips iff key Vx is pressed.
C18_KeySkips ==
    (LastTick /\ (IsSkp(last.op) \/ IsSknp(last.op)))
        => LET p  == last.pre.cpu.program_counter
               vx == PreV(digit2(last.op))
               pressed == vx \in PressedKeys(last.pre)
           IN  /\ ~panicked
               /\ cpu.program_counter =
                     IF IsSkp(last.op) <=> pressed THEN p + 4 ELSE p + 2
               /\ cpu.v_registers = last.pre.cpu.v_registers
               /\ cpu.i_register = last.pre.cpu.i_register
               /\ cpu.stack = last.pre.cpu.stack
               /\ cpu.stack_pointer = last.pre.cpu.stack_pointer
               /\ input = last.pre.input
               /\ memory = last.pre.memory
               /\ display = last.pre.display

\* C19: with I + x <= 4095, a tick of Fx55 writes V0..Vx to memory I..I+x
\* and changes no other memory byte, no register and not I; a tick of Fx65
\* reads memory I..I+x into V0..Vx and changes no register above Vx, no
\* memory byte and not I; Fx55 followed at once by Fx65 with the same x
\* leaves every register as it was before the Fx55.
C19_BlockStoreLoad ==
    /\ ( /\ LastTick /\ IsStr(last.op)
         /\ last.pre.cpu.i_register + digit2(last.op) <= RAM_SIZE - 1 )
        => LET i == last.pre.cpu.i_register
               x == digit2(last.op)
           IN  /\ ~panicked
               /\ \A a \in 0..(RAM_SIZE - 1) :
                     ram_at(memory.ram, a) =
                        IF a \in i..(i + x) THEN PreV(a - i)
                        ELSE ram_at(last.pre.memory.ram, a)
               /\ cpu.v_registers = last.pre.cpu.v_registers
               /\ cpu.i_register = i
    /\ ( /\ LastTick /\ IsLd(last.op)
         /\ last.pre.cpu.i_register + digit2(last.op) <= RAM_SIZE - 1 )
        => LET i == last.pre.cpu.i_register
               x == digit2(last.op)
           IN  /\ ~panicked
               /\ \A r \in 0..(NUMBER_OF_REGISTERS - 1) :
                     V(r) = IF r <= x THEN ram_at(last.pre.memory.ram, i + r)
                            ELSE PreV(r)
               /\ memory = last.pre.memory
               /\ cpu.i_register = i
    /\ ( /\ last2.kind = "tick" /\ IsStr(last2.op)
         /\ LastTick /\ IsLd(last.op)
         /\ digit2(last.op) = digit2(last2.op)
         /\ last2.pre.cpu.i_register + digit2(last2.op) <= RAM_SIZE - 1 )
        => /\ ~panicked
           /\ cpu.v_registers = last2.pre.cpu.v_registers
           /\ cpu.i_register = last2.pre.cpu.i_register

\* Fx65 with x = 15 at I = 4080, the last block that fits, brings back the
\* registers that an earlier Fx55 stored there and that were overwritten
\* since.
C19_Witness ==
    /\ LastTick /\ IsLd(last.op) /\ ~panicked
    /\ digit2(last.op) = 15
    /\ last.pre.cpu.i_register = RAM_SIZE - NUMBER_OF_REGISTERS
    /\ PreV(0) = 119 /\ PreV(1) = 136
    /\ V(0) = 17 /\ V(1) = 0 /\ V(2) = 34
    /\ ram_at(memory.ram, RAM_SIZE - NUMBER_OF_REGISTERS + 2) = 34

\* C20: in every state reached by ticks from the initial state the program
\* counter is in 0x000..0xFFF, also after JMP V0+nnn with V0 + nnn above
\* 0xFFF and after a fetch of the last word of memory.
C20_ProgramCounterInRange ==
    cpu.program_counter \in 0..(RAM_SIZE - 1)

\* C21: decoding is exact. A tick of NOP (0x0000) changes nothing but PC,
\* which advances by 2. The register copy LD Vx,Vy is performed for words
\* 8xy0, and a word 8xyN with N outside {0,1,4,5,6,7,E} copies no register.
\* SNE Vx,Vy is performed for words 9xy0 (skip iff Vx # Vy), and a word 9xyN
\* with N # 0 skips nothing.
C21_DecodingExact ==
    /\ (LastTick /\ last.op = 0)
        => /\ ~panicked
           /\ cpu = [last.pre.cpu EXCEPT
                        !.program_counter = last.pre.cpu.program_counter + 2]
           /\ memory = last.pre.memory
           /\ display = last.pre.display
           /\ input = last.pre.input
    /\ (LastTick /\ digit1(last.op) = 8 /\ digit4(last.op) = 0)
        => /\ ~panicked
           /\ V(digit2(last.op)) = PreV(digit3(last.op))
           /\ OtherRegistersKept(digit2(last.op))
    /\ (LastTick /\ digit1(last.op) = 8
            /\ digit4(last.op) \notin {0, 1, 4, 5, 6, 7, 14})
        => cpu.v_registers = last.pre.cpu.v_registers
    /\ (LastTick /\ digit1(last.op) = 9 /\ digit4(last.op) = 0)
        => /\ ~panicked
           /\ cpu.program_counter = last.pre.cpu.program_counter +
                 (IF PreV(digit2(last.op)) # PreV(digit3(last.op)) THEN 4 ELSE 2)
    /\ (LastTick /\ digit1(last.op) = 9 /\ digit4(last.op) # 0)
        => cpu.program_counter = last.pre.cpu.program_counter + 2

====
